---- MODULE Spec2Model ----
(***************************************************************************)
(* A model of the Tetris component of src/src/lib.rs: the stage (Vec2D),   *)
(* the player piece, the game status, the interval job and the messages    *)
(* that Model::update handles.                                              *)
(***************************************************************************)
EXTENDS Integers, Sequences, FiniteSets, TLC

(***************************************************************************)
(* Bounds of the model.  The program builds a 21 x 10 stage; the model     *)
(* explores a smaller stage, a bounded number of lock-ins and a bounded    *)
(* number of the piece types get_random_piece may draw.                    *)
(***************************************************************************)
StageRows == 5
StageCols == 7
MaxLocks == 1
NumKinds == 3

(***************************************************************************)
(* enum PieceType and the catalog PIECES                                   *)
(***************************************************************************)
E == "E"

PieceTypes == <<"I", "J", "L", "T", "O", "S", "Z">>

Vec2D(rows, cols, d) == [n_rows |-> rows, n_cols |-> cols, data |-> d]

PIECES(t) ==
    CASE t = "E" -> Vec2D(1, 1, <<E>>)
      [] t = "I" -> Vec2D(4, 4, <<E, "I", E, E,
                                  E, "I", E, E,
                                  E, "I", E, E,
                                  E, "I", E, E>>)
      [] t = "J" -> Vec2D(3, 3, <<E, "J", E,
                                  E, "J", E,
                                  "J", "J", E>>)
      [] t = "L" -> Vec2D(3, 3, <<E, "L", E,
                                  E, "L", E,
                                  E, "L", "L">>)
      [] t = "T" -> Vec2D(3, 3, <<E, "T", E,
                                  "T", "T", "T",
                                  E, E, E>>)
      [] t = "O" -> Vec2D(2, 2, <<"O", "O",
                                  "O", "O">>)
      [] t = "S" -> Vec2D(3, 3, <<E, E, E,
                                  E, "S", "S",
                                  "S", "S", E>>)
      [] t = "Z" -> Vec2D(3, 3, <<E, E, E,
                                  "Z", "Z", E,
                                  E, "Z", "Z">>)

POSITION_INIT == [x |-> 4, y |-> -1]

(***************************************************************************)
(* Vec2D::get / get_piece_type / set.  The accessors assert row < n_rows   *)
(* and col < n_cols; InVec says whether the assertions pass.               *)
(***************************************************************************)
InVec(v, row, col) == row >= 0 /\ row < v.n_rows /\ col >= 0 /\ col < v.n_cols

get(v, row, col) == v.data[row * v.n_cols + col + 1]

set(v, row, col, piece) ==
    [v EXCEPT !.data = [@ EXCEPT ![row * v.n_cols + col + 1] = piece]]

initialize_stage(rows, columns) ==
    Vec2D(rows, columns, [i \in 1..(rows * columns) |-> E])

initialize_game_status ==
    [level |-> 16, rows_cleared |-> 0, score |-> 0, game_over |-> FALSE]

\* The values rng.gen_range(0, 7) is let to take in the model.
get_random_piece == {PieceTypes[n + 1] : n \in 0..(NumKinds - 1)}

initialize_player(random_piece) ==
    [piece_type |-> random_piece,
     piece_shape |-> PIECES(random_piece),
     position |-> POSITION_INIT,
     collided |-> FALSE]

(***************************************************************************)
(* The model record m stands for `self` (struct Model): stage, player,     *)
(* game_status, job.  An Option<T> argument is <<>> (None) or <<v>>.       *)
(***************************************************************************)
None == <<>>

Some(v) == <<v>>

Bool3(b) == IF b THEN "true" ELSE "false"

\* a && b on results that may also be "panic" (a failed assert!): b is only
\* evaluated when a is true.
AndThen(a, b) == IF a = "true" THEN b ELSE a

Min(S) == CHOOSE i \in S : \A j \in S : i <= j

\* A variant of is_position_empty that takes a cell outside the stage for a
\* cell in the way
is_position_empty_inside(m, x, y, player_piece) ==
    LET piece == IF player_piece = None THEN m.player.piece_shape
                 ELSE player_piece[1]
        stage_rows == m.stage.n_rows
        stage_cols == m.stage.n_cols
    IN  \A n_row \in 0..(piece.n_rows - 1) : \A n_col \in 0..(piece.n_cols - 1) :
            LET row == n_row + y
                col == n_col + x
            IN  IF row < 0 \/ row >= stage_rows \/ col < 0 \/ col >= stage_cols
                THEN get(piece, n_row, n_col) = E
                ELSE ~(get(m.stage, row, col) # E /\ get(piece, n_row, n_col) # E)

\* Model::is_position_empty
is_position_empty(m, x, y, player_piece) ==
    LET piece == IF player_piece = None THEN m.player.piece_shape
                 ELSE player_piece[1]
        stage_rows == m.stage.n_rows
        stage_cols == m.stage.n_cols
    IN  \A n_row \in 0..(piece.n_rows - 1) : \A n_col \in 0..(piece.n_cols - 1) :
            LET row == n_row + y
                col == n_col + x
            IN  IF row < 0 \/ row >= stage_rows \/ col < 0 \/ col >= stage_cols
                THEN TRUE
                ELSE ~(get(m.stage, row, col) # E /\ get(piece, n_row, n_col) # E)

\* The cells one border loop of is_player_position_valid reads, in the order
\* it reads them: "false" at the first non-Empty cell, "panic" at the first
\* cell outside the piece (Vec2D::get asserts), "true" when the loop ends.
ScanCells(piece, cells) ==
    LET bad(i) == ~InVec(piece, cells[i][1], cells[i][2])
        hit(i) == bad(i) \/ get(piece, cells[i][1], cells[i][2]) # E
        H == {i \in 1..Len(cells) : hit(i)}
    IN  IF H = {} THEN "true"
        ELSE IF bad(Min(H)) THEN "panic" ELSE "false"

\* Model::is_player_position_valid: "true", "false" or "panic"
is_player_position_valid(m, x, y, player_piece) ==
    LET piece == IF player_piece = None THEN m.player.piece_shape
                 ELSE player_piece[1]
        stage_rows == m.stage.n_rows
        stage_cols == m.stage.n_cols
        player_rows == piece.n_rows
        player_cols == piece.n_cols
        left ==
            IF x < 0
            THEN LET distance == -x
                 IN  ScanCells(piece, [k \in 1..(player_rows * distance) |->
                        <<(k - 1) \div distance, (k - 1) % distance>>])
            ELSE "true"
        right ==
            IF x + player_cols > stage_cols
            THEN LET distance == x + player_cols - stage_cols
                 IN  ScanCells(piece, [k \in 1..(player_rows * distance) |->
                        <<(k - 1) \div distance,
                          player_cols - distance + ((k - 1) % distance)>>])
            ELSE "true"
        low ==
            IF y + player_rows > stage_rows
            THEN LET distance == y + player_rows - stage_rows
                 IN  ScanCells(piece, [k \in 1..(distance * player_cols) |->
                        <<player_rows - distance + ((k - 1) \div player_cols),
                          (k - 1) % player_cols>>])
            ELSE "true"
    IN  AndThen(left, AndThen(right, low))

\* A variant of get_completed_rows that stops at the first full row
get_completed_rows_first(m) ==
    LET full(n_row) == \A n_col \in 0..(m.stage.n_cols - 1) :
                           get(m.stage, n_row, n_col) # E
        idx == [i \in 1..m.stage.n_rows |-> i - 1]
        rows == SelectSeq(idx, full)
    IN  IF rows = <<>> THEN rows ELSE <<Head(rows)>>

\* Model::get_completed_rows: the full rows, ascending
get_completed_rows(m) ==
    LET full(n_row) == \A n_col \in 0..(m.stage.n_cols - 1) :
                           get(m.stage, n_row, n_col) # E
        idx == [i \in 1..m.stage.n_rows |-> i - 1]
    IN  SelectSeq(idx, full)

\* A variant of the loop that pushes the cells one place on in row order
ShiftedData(shape) ==
    [k \in 1..(shape.n_cols * shape.n_rows) |->
        shape.data[(k % (shape.n_cols * shape.n_rows)) + 1]]

\* The rotation loop shared by is_rotate_allowed and rotate_player_piece:
\* for n_col in 0..cols, for n_row in (0..rows).rev(): push shape[n_row][n_col]
RotatedData(shape) ==
    [k \in 1..(shape.n_cols * shape.n_rows) |->
        get(shape, shape.n_rows - 1 - ((k - 1) % shape.n_rows),
                   (k - 1) \div shape.n_rows)]

\* A variant of is_rotate_allowed that does not look at the walls
is_rotate_allowed_empty(m) ==
    LET x == m.player.position.x
        y == m.player.position.y
        rotated_piece == Vec2D(m.player.piece_shape.n_rows,
                               m.player.piece_shape.n_cols,
                               RotatedData(m.player.piece_shape))
    IN  Bool3(is_position_empty(m, x, y, Some(rotated_piece)))

\* Model::is_rotate_allowed: reads the player's own position
is_rotate_allowed(m) ==
    LET x == m.player.position.x
        y == m.player.position.y
        rotated_piece == Vec2D(m.player.piece_shape.n_rows,
                               m.player.piece_shape.n_cols,
                               RotatedData(m.player.piece_shape))
    IN  AndThen(Bool3(is_position_empty(m, x, y, Some(rotated_piece))),
                is_player_position_valid(m, x, y, Some(rotated_piece)))

\* A variant of is_move_allowed that does not look at the cells of the stage
is_move_allowed_in_bounds(m, control, position) ==
    LET x == IF position = None THEN m.player.position.x ELSE position[1].x
        y == IF position = None THEN m.player.position.y ELSE position[1].y
    IN  CASE control = "Left" -> is_player_position_valid(m, x - 1, y, None)
          [] control = "Right" -> is_player_position_valid(m, x + 1, y, None)
          [] control \in {"Bottom", "Down"} ->
               is_player_position_valid(m, x, y + 1, None)
          [] control = "Rotate" -> is_rotate_allowed(m)

\* Model::is_move_allowed: "true", "false" or "panic"
is_move_allowed(m, control, position) ==
    LET x == IF position = None THEN m.player.position.x ELSE position[1].x
        y == IF position = None THEN m.player.position.y ELSE position[1].y
    IN  CASE control = "Left" ->
               AndThen(is_player_position_valid(m, x - 1, y, None),
                       Bool3(is_position_empty(m, x - 1, y, None)))
          [] control = "Right" ->
               AndThen(is_player_position_valid(m, x + 1, y, None),
                       Bool3(is_position_empty(m, x + 1, y, None)))
          [] control \in {"Bottom", "Down"} ->
               AndThen(is_player_position_valid(m, x, y + 1, None),
                       Bool3(is_position_empty(m, x, y + 1, None)))
          [] control = "Rotate" -> is_rotate_allowed(m)

(***************************************************************************)
(* impl State                                                              *)
(***************************************************************************)
\* State::initialize_game: the player is not touched
initialize_game(m) ==
    [m EXCEPT !.stage = initialize_stage(StageRows, StageCols),
              !.game_status = initialize_game_status]

\* A variant of the merge loop whose skip test reads col <= 0
MergeCellsPastFirstColumn(m) ==
    LET shape == m.player.piece_shape
        x == m.player.position.x
        y == m.player.position.y
    IN  {c \in (0..(shape.n_rows - 1)) \X (0..(shape.n_cols - 1)) :
            /\ ~(c[1] + y < 0 \/ c[1] + y > m.stage.n_rows
                 \/ c[2] + x <= 0 \/ c[2] + x > m.stage.n_cols)
            /\ get(shape, c[1], c[2]) # E}

\* A variant of the merge loop that writes the Empty cells of the box too
MergeCellsOfBox(m) ==
    LET shape == m.player.piece_shape
        x == m.player.position.x
        y == m.player.position.y
    IN  {c \in (0..(shape.n_rows - 1)) \X (0..(shape.n_cols - 1)) :
            ~(c[1] + y < 0 \/ c[1] + y > m.stage.n_rows
              \/ c[2] + x < 0 \/ c[2] + x > m.stage.n_cols)}

\* The cells of the piece the merge loop of add_player_piece_stage does not
\* skip and writes: non-Empty, and not (row < 0 || row > stage_rows ||
\* col < 0 || col > stage_cols).
MergeCells(m) ==
    LET shape == m.player.piece_shape
        x == m.player.position.x
        y == m.player.position.y
    IN  {c \in (0..(shape.n_rows - 1)) \X (0..(shape.n_cols - 1)) :
            /\ ~(c[1] + y < 0 \/ c[1] + y > m.stage.n_rows
                 \/ c[2] + x < 0 \/ c[2] + x > m.stage.n_cols)
            /\ get(shape, c[1], c[2]) # E}

\* Vec2D::set asserts row < n_rows and col < n_cols
MergePanics(m) ==
    \E c \in MergeCells(m) :
        ~InVec(m.stage, c[1] + m.player.position.y, c[2] + m.player.position.x)

\* A variant of the respawn loop that stops at its first draw
RespawnFirstDraw(m) == get_random_piece

\* The choices the respawn loop of add_player_piece_stage can end with
RespawnChoices(m) == {p \in get_random_piece : p # m.player.piece_type}

\* A variant of add_player_piece_stage that spawns at POSITION_INIT
add_player_piece_stage_above(m, random_piece) ==
    LET shape == m.player.piece_shape
        x == m.player.position.x
        y == m.player.position.y
        cells == MergeCells(m)
        at(i) == {c \in cells : (c[1] + y) * m.stage.n_cols + (c[2] + x) + 1 = i}
        merged == [i \in 1..Len(m.stage.data) |->
                     IF at(i) = {} THEN m.stage.data[i]
                     ELSE LET c == CHOOSE c \in at(i) : TRUE
                          IN  get(shape, c[1], c[2])]
    IN  [m EXCEPT !.stage.data = merged,
                  !.player.piece_type = random_piece,
                  !.player.piece_shape = PIECES(random_piece),
                  !.player.position = POSITION_INIT]

\* State::add_player_piece_stage, for a merge that does not panic;
\* random_piece is the draw that ends the loop
add_player_piece_stage(m, random_piece) ==
    LET shape == m.player.piece_shape
        x == m.player.position.x
        y == m.player.position.y
        cells == MergeCells(m)
        at(i) == {c \in cells : (c[1] + y) * m.stage.n_cols + (c[2] + x) + 1 = i}
        merged == [i \in 1..Len(m.stage.data) |->
                     IF at(i) = {} THEN m.stage.data[i]
                     ELSE LET c == CHOOSE c \in at(i) : TRUE
                          IN  get(shape, c[1], c[2])]
    IN  [m EXCEPT !.stage.data = merged,
                  !.player.piece_type = random_piece,
                  !.player.piece_shape = PIECES(random_piece),
                  !.player.position = [x |-> 4, y |-> 0]]

\* A variant of update_game_state that scores at the level after the update
update_game_state_new_level(m, rows_cleared) ==
    IF rows_cleared > 0
    THEN LET total == m.game_status.rows_cleared + rows_cleared
             level == (total \div 10) + 1
             score == CASE rows_cleared = 1 -> 40 * level
                        [] rows_cleared = 2 -> 100 * level
                        [] rows_cleared = 3 -> 300 * level
                        [] OTHER -> 1200 * level
         IN  [m EXCEPT !.game_status =
                 [level |-> level,
                  score |-> m.game_status.score + score,
                  rows_cleared |-> total,
                  game_over |-> m.game_status.game_over]]
    ELSE m

\* State::update_game_state
update_game_state(m, rows_cleared) ==
    IF rows_cleared > 0
    THEN LET score == CASE rows_cleared = 1 -> 40 * m.game_status.level
                        [] rows_cleared = 2 -> 100 * m.game_status.level
                        [] rows_cleared = 3 -> 300 * m.game_status.level
                        [] OTHER -> 1200 * m.game_status.level
             total == m.game_status.rows_cleared + rows_cleared
             level == (total \div 10) + 1
         IN  [m EXCEPT !.game_status =
                 [level |-> level,
                  score |-> m.game_status.score + score,
                  rows_cleared |-> total,
                  game_over |-> m.game_status.game_over]]
    ELSE m

\* A variant of the pass that leaves row n_row itself alone
RemoveRowAbove(stage, n_row) ==
    [stage EXCEPT !.data =
        [i \in 1..Len(stage.data) |->
            LET row == (i - 1) \div stage.n_cols
                col == (i - 1) % stage.n_cols
            IN  IF row >= n_row THEN stage.data[i]
                ELSE IF row = 0 THEN E
                ELSE get(stage, row - 1, col)]]

\* One pass of the outer loop of remove_rows: rows 0..n_row are rewritten
\* from a clone of the stage, row 0 with Empty, row r with row r - 1.
RemoveRow(stage, n_row) ==
    [stage EXCEPT !.data =
        [i \in 1..Len(stage.data) |->
            LET row == (i - 1) \div stage.n_cols
                col == (i - 1) % stage.n_cols
            IN  IF row > n_row THEN stage.data[i]
                ELSE IF row = 0 THEN E
                ELSE get(stage, row - 1, col)]]

RECURSIVE RemoveRows(_, _)
RemoveRows(stage, rows) ==
    IF rows = <<>> THEN stage
    ELSE RemoveRows(RemoveRow(stage, Head(rows)), Tail(rows))

\* State::remove_rows
remove_rows(m, rows) == [m EXCEPT !.stage = RemoveRows(m.stage, rows)]

\* State::game_over
game_over(m) == [m EXCEPT !.game_status.game_over = TRUE]

\* State::rotate_player_piece
rotate_player_piece(m) ==
    [m EXCEPT !.player.piece_shape.data = RotatedData(m.player.piece_shape)]

(***************************************************************************)
(* enum Msg, and Model::update.  link.send_message appends to the queue of *)
(* messages the scheduler still has to hand to update.                     *)
(***************************************************************************)
Msg(t, c) == [type |-> t, control |-> c]

StartPause == Msg("StartPause", "")

StartInterval == Msg("StartInterval", "")

Cancel == Msg("Cancel", "")

Tick == Msg("Tick", "")

Move(control) == Msg("Move", control)

send_message(m, msg) == [m EXCEPT !.queue = Append(@, msg)]

\* A failed assert! aborts the program
Panic(m) == [m EXCEPT !.panicked = TRUE]

\* A variant of Msg::StartPause that starts the interval whether or not a job
\* is there
UpdateStartPauseAnyJob(m) ==
    send_message(IF m.game_status.game_over THEN initialize_game(m) ELSE m,
                 StartInterval)

\* Msg::StartPause
UpdateStartPause(m) ==
    IF ~m.job
    THEN send_message(IF m.game_status.game_over THEN initialize_game(m) ELSE m,
                      StartInterval)
    ELSE send_message(m, Cancel)

\* Msg::StartInterval: job = Some(handle)
UpdateStartInterval(m) == [m EXCEPT !.job = TRUE]

\* Msg::Cancel: job.take()
UpdateCancel(m) == [m EXCEPT !.job = FALSE]

\* Msg::Tick
UpdateTick(m) == send_message(m, Move("Down"))

\* Controls::Left
MoveLeft(m) ==
    LET r == is_move_allowed(m, "Left", None)
    IN  IF r = "panic" THEN Panic(m)
        ELSE IF r = "true" THEN [m EXCEPT !.player.position.x = @ - 1]
        ELSE m

\* Controls::Right
MoveRight(m) ==
    LET r == is_move_allowed(m, "Right", None)
    IN  IF r = "panic" THEN Panic(m)
        ELSE IF r = "true" THEN [m EXCEPT !.player.position.x = @ + 1]
        ELSE m

\* A variant of Controls::Down that ends the game and lets the job run
MoveDownJobRuns(m, random_piece) ==
    LET r == is_move_allowed(m, "Down", None)
    IN  IF r = "panic" THEN Panic(m)
        ELSE IF r = "true" THEN [m EXCEPT !.player.position.y = @ + 1]
        ELSE IF m.player.position.y <= 0
             THEN game_over(m)
        ELSE IF MergePanics(m) THEN Panic(m)
        ELSE LET m1 == add_player_piece_stage(m, random_piece)
                 rows == get_completed_rows(m1)
             IN  IF Len(rows) # 0
                 THEN remove_rows(update_game_state(m1, Len(rows)), rows)
                 ELSE m1

\* A variant of Controls::Down that ends the game only above the top row
MoveDownAboveTop(m, random_piece) ==
    LET r == is_move_allowed(m, "Down", None)
    IN  IF r = "panic" THEN Panic(m)
        ELSE IF r = "true" THEN [m EXCEPT !.player.position.y = @ + 1]
        ELSE IF m.player.position.y < 0
             THEN send_message(game_over(m), Cancel)
        ELSE IF MergePanics(m) THEN Panic(m)
        ELSE LET m1 == add_player_piece_stage(m, random_piece)
                 rows == get_completed_rows(m1)
             IN  IF Len(rows) # 0
                 THEN remove_rows(update_game_state(m1, Len(rows)), rows)
                 ELSE m1

\* Controls::Down
MoveDown(m, random_piece) ==
    LET r == is_move_allowed(m, "Down", None)
    IN  IF r = "panic" THEN Panic(m)
        ELSE IF r = "true" THEN [m EXCEPT !.player.position.y = @ + 1]
        ELSE IF m.player.position.y <= 0
             THEN send_message(game_over(m), Cancel)
        ELSE IF MergePanics(m) THEN Panic(m)
        ELSE LET m1 == add_player_piece_stage(m, random_piece)
                 rows == get_completed_rows(m1)
             IN  IF Len(rows) # 0
                 THEN remove_rows(update_game_state(m1, Len(rows)), rows)
                 ELSE m1

\* A variant of Controls::Bottom that drops the piece and leaves the lock-in to
\* the next move down
RECURSIVE MoveBottomToRest(_, _)
MoveBottomToRest(m, random_piece) ==
    LET r == is_move_allowed(m, "Down", None)
    IN  IF r = "panic" THEN Panic(m)
        ELSE IF r = "true"
             THEN MoveBottomToRest([m EXCEPT !.player.position.y = @ + 1],
                                   random_piece)
        ELSE IF m.player.position.y <= 0
             THEN send_message(game_over(m), Cancel)
        ELSE m

\* A variant of Controls::Bottom that makes one pass of the loop
MoveBottomOnePass(m, random_piece) ==
    LET r == is_move_allowed(m, "Down", None)
    IN  IF r = "panic" THEN Panic(m)
        ELSE IF r = "true" THEN [m EXCEPT !.player.position.y = @ + 1]
        ELSE IF m.player.position.y <= 0
             THEN send_message(game_over(m), Cancel)
        ELSE IF MergePanics(m) THEN Panic(m)
        ELSE LET m1 == add_player_piece_stage(m, random_piece)
                 rows == get_completed_rows(m1)
             IN  IF Len(rows) # 0
                 THEN remove_rows(update_game_state(m1, Len(rows)), rows)
                 ELSE m1

\* A variant of Controls::Bottom that ends the game only above the top row
RECURSIVE MoveBottomAboveTop(_, _)
MoveBottomAboveTop(m, random_piece) ==
    LET r == is_move_allowed(m, "Down", None)
    IN  IF r = "panic" THEN Panic(m)
        ELSE IF r = "true"
             THEN MoveBottomAboveTop([m EXCEPT !.player.position.y = @ + 1],
                                     random_piece)
        ELSE IF m.player.position.y < 0
             THEN send_message(game_over(m), Cancel)
        ELSE IF MergePanics(m) THEN Panic(m)
        ELSE LET m1 == add_player_piece_stage(m, random_piece)
                 rows == get_completed_rows(m1)
             IN  IF Len(rows) # 0
                 THEN remove_rows(update_game_state(m1, Len(rows)), rows)
                 ELSE m1

\* Controls::Bottom: the loop ends at the first move down that is not allowed
RECURSIVE MoveBottom(_, _)
MoveBottom(m, random_piece) ==
    LET r == is_move_allowed(m, "Down", None)
    IN  IF r = "panic" THEN Panic(m)
        ELSE IF r = "true"
             THEN MoveBottom([m EXCEPT !.player.position.y = @ + 1], random_piece)
        ELSE IF m.player.position.y <= 0
             THEN send_message(game_over(m), Cancel)
        ELSE IF MergePanics(m) THEN Panic(m)
        ELSE LET m1 == add_player_piece_stage(m, random_piece)
                 rows == get_completed_rows(m1)
             IN  IF Len(rows) # 0
                 THEN remove_rows(update_game_state(m1, Len(rows)), rows)
                 ELSE m1

\* Controls::Rotate
MoveRotate(m) ==
    LET r == is_move_allowed(m, "Rotate", None)
    IN  IF r = "panic" THEN Panic(m)
        ELSE IF r = "true" THEN rotate_player_piece(m)
        ELSE LET position == [x |-> m.player.position.x,
                              y |-> m.player.position.y - 1]
                 r2 == is_move_allowed(m, "Rotate", Some(position))
             IN  IF r2 = "panic" THEN Panic(m)
                 ELSE IF r2 = "true" THEN rotate_player_piece(m)
                 ELSE m

\* A variant of Msg::Move(control) that does not look at game_over
UpdateMoveAlways(m, control, random_piece) ==
    CASE control = "Left" -> MoveLeft(m)
      [] control = "Right" -> MoveRight(m)
      [] control = "Bottom" -> MoveBottom(m, random_piece)
      [] control = "Down" -> MoveDown(m, random_piece)
      [] control = "Rotate" -> MoveRotate(m)

\* Msg::Move(control)
UpdateMove(m, control, random_piece) ==
    IF ~m.game_status.game_over
    THEN CASE control = "Left" -> MoveLeft(m)
           [] control = "Right" -> MoveRight(m)
           [] control = "Bottom" -> MoveBottom(m, random_piece)
           [] control = "Down" -> MoveDown(m, random_piece)
           [] control = "Rotate" -> MoveRotate(m)
    ELSE m

\* Model::update; nothing runs after a panic
update(m, msg, random_piece) ==
    IF m.panicked THEN m
    ELSE CASE msg.type = "StartPause" -> UpdateStartPause(m)
           [] msg.type = "StartInterval" -> UpdateStartInterval(m)
           [] msg.type = "Cancel" -> UpdateCancel(m)
           [] msg.type = "Tick" -> UpdateTick(m)
           [] msg.type = "Move" -> UpdateMove(m, msg.control, random_piece)

\* link.send_message_batch: the messages of a batch are handed to update one
\* after the other; what they send is handled after the batch
RECURSIVE UpdateBatch(_, _, _)
UpdateBatch(m, batch, random_piece) ==
    IF batch = <<>> THEN m
    ELSE UpdateBatch(update(m, Head(batch), random_piece), Tail(batch),
                     random_piece)

(***************************************************************************)
(* The state machine.  The program state is stage, player, game_status and *)
(* job; queue holds the messages sent from inside update that the          *)
(* scheduler has not handed to update yet; panicked says a failed assert!  *)
(* has aborted the program; locks counts the lock-ins explored so far.     *)
(***************************************************************************)
VARIABLES stage, player, game_status, job, queue, panicked, locks

vars == <<stage, player, game_status, job, queue, panicked, locks>>

Self == [stage |-> stage, player |-> player, game_status |-> game_status,
         job |-> job, queue |-> queue, panicked |-> panicked]

\* The pieces locked in the current game: the cells on the stage and in the
\* rows cleared so far, four to a piece
LocksDone(m) ==
    (Cardinality({i \in 1..Len(m.stage.data) : m.stage.data[i] # E})
     + m.stage.n_cols * m.game_status.rows_cleared) \div 4

\* The step from m to m2 locked a piece
LockedIn(m, m2) == LocksDone(m2) = LocksDone(m) + 1

Commit(m) ==
    /\ stage' = m.stage
    /\ player' = m.player
    /\ game_status' = m.game_status
    /\ job' = m.job
    /\ queue' = m.queue
    /\ panicked' = m.panicked
    /\ locks' = IF LockedIn(Self, m) THEN locks + 1 ELSE locks

\* Model::create
Created(random_piece) ==
    [stage |-> initialize_stage(StageRows, StageCols),
     player |-> initialize_player(random_piece),
     game_status |-> initialize_game_status,
     job |-> FALSE,
     queue |-> <<>>,
     panicked |-> FALSE]

Start(m) ==
    /\ stage = m.stage
    /\ player = m.player
    /\ game_status = m.game_status
    /\ job = m.job
    /\ queue = m.queue
    /\ panicked = m.panicked
    /\ locks = 0

InitCreated == \E random_piece \in get_random_piece : Start(Created(random_piece))

\* The browser runs a listener (a key, the interval) when the program is
\* running and update has handled every message sent so far
Idle == queue = <<>> /\ ~panicked /\ locks < MaxLocks

\* A variant of the listener whose batches do not cancel the job
KeyMessagesNoCancel(key) ==
    CASE key = "Enter" -> <<StartPause>>
      [] key = "ArrowRight" -> <<Move("Right"), StartInterval>>
      [] key = "ArrowLeft" -> <<Move("Left"), StartInterval>>
      [] key = "ArrowDown" -> <<Move("Bottom"), StartInterval>>
      [] key = "ArrowUp" -> <<Move("Rotate"), StartInterval>>

\* What the keydown listener sends for a key; send_message runs update at once
KeyMessages(key) ==
    CASE key = "Enter" -> <<StartPause>>
      [] key = "ArrowRight" -> <<Move("Right"), Cancel, StartInterval>>
      [] key = "ArrowLeft" -> <<Move("Left"), Cancel, StartInterval>>
      [] key = "ArrowDown" -> <<Move("Bottom"), Cancel, StartInterval>>
      [] key = "ArrowUp" -> <<Move("Rotate"), Cancel, StartInterval>>

KeyDown(m, key, random_piece) == UpdateBatch(m, KeyMessages(key), random_piece)

KeyEnter == Idle /\ Commit(KeyDown(Self, "Enter", E))

KeyArrowRight == Idle /\ Commit(KeyDown(Self, "ArrowRight", E))

KeyArrowLeft == Idle /\ Commit(KeyDown(Self, "ArrowLeft", E))

KeyArrowDown ==
    /\ Idle
    /\ \E random_piece \in RespawnChoices(Self) :
          Commit(KeyDown(Self, "ArrowDown", random_piece))

KeyArrowUp == Idle /\ Commit(KeyDown(Self, "ArrowUp", E))

\* The interval of the job fires: callback_tick sends Msg::Tick
IntervalTick == Idle /\ job /\ Commit(update(Self, Tick, E))

\* The scheduler hands the next message to update
Handling(type) == queue # <<>> /\ ~panicked /\ Head(queue).type = type

Popped(m) == [m EXCEPT !.queue = Tail(@)]

HandleStartInterval ==
    /\ Handling("StartInterval")
    /\ Commit(update(Popped(Self), Head(queue), E))

HandleCancel ==
    /\ Handling("Cancel")
    /\ Commit(update(Popped(Self), Head(queue), E))

HandleMove ==
    /\ Handling("Move")
    /\ \E random_piece \in RespawnChoices(Self) :
          Commit(update(Popped(Self), Head(queue), random_piece))

Next ==
    \/ KeyEnter
    \/ KeyArrowRight
    \/ KeyArrowLeft
    \/ KeyArrowDown
    \/ KeyArrowUp
    \/ IntervalTick
    \/ HandleStartInterval
    \/ HandleCancel
    \/ HandleMove

(***************************************************************************)
(* States in the middle of a game.  A game is the first piece and a play:  *)
(* the list of listener calls, each with the piece the respawn loop draws  *)
(* should the call lock the player piece.  Replay runs the program on the  *)
(* play from Model::create, so what it returns is a state the program      *)
(* reaches.                                                                *)
(***************************************************************************)
RECURSIVE Drain(_, _)
Drain(m, random_piece) ==
    IF m.queue = <<>> \/ m.panicked THEN m
    ELSE Drain(update(Popped(m), Head(m.queue), random_piece), random_piece)

Listener(m, key, random_piece) ==
    IF key = "Tick" THEN Drain(update(m, Tick, random_piece), random_piece)
    ELSE Drain(KeyDown(m, key, random_piece), random_piece)

\* The state after each call is worked out before the next call is made
RECURSIVE Replay(_, _)
Replay(m, play) ==
    CHOOSE end \in
        {IF play = <<>> THEN from
         ELSE Replay(Listener(from, Head(play)[1], Head(play)[2]), Tail(play)) :
             from \in {m}} : TRUE

Keys(key, n, random_piece) == [i \in 1..n |-> <<key, random_piece>>]

\* An I laid flat on the bottom row, columns 0..3; next piece p
PlayFlatI(p) ==
    Keys("ArrowLeft", 4, p) \o <<<<"ArrowUp", p>>, <<"ArrowDown", p>>>>

\* A J upright in columns 5..6; next piece p
PlayRightJ(p) == <<<<"ArrowRight", p>>, <<"ArrowDown", p>>>>

\* A J turned twice, dropped at the spawn column onto the J below; next p
PlayTopJ(p) == Keys("ArrowUp", 2, p) \o <<<<"ArrowDown", p>>>>

\* An O in columns c..c+1; next piece p
PlayO(c, p) == Keys("ArrowLeft", 4 - c, p) \o <<<<"ArrowDown", p>>>>

\* An L turned three times, in columns 1..3; next piece p
PlayLowL(p) ==
    Keys("ArrowUp", 3, p) \o Keys("ArrowLeft", 3, p) \o <<<<"ArrowDown", p>>>>

\* An L carried to column 0 turned three times, turned twice more there
PlayHighL(p) ==
    Keys("ArrowUp", 3, p) \o Keys("ArrowLeft", 4, p) \o Keys("ArrowUp", 2, p)
    \o <<<<"ArrowDown", p>>>>

Enter == <<<<"Enter", E>>>>

\* A flat I on the bottom row, a J falling
FlatI == <<"I", Enter \o PlayFlatI("J")>>

\* A J dropped at the spawn column, an I falling: carried one column to the
\* left the I stands on the J and cannot go down from the top row
LowJ == <<"J", Enter \o <<<<"ArrowDown", "I">>>>>>

\* Rows 3 and 4 full but for columns 4 and 5; next piece p
FlatI_J_I(p) == Enter \o PlayFlatI("J") \o PlayRightJ("I") \o PlayFlatI(p)

\* Rows 3 and 4 full but for column 4, an I falling
TwoRows == <<"I", FlatI_J_I("J") \o PlayTopJ("I")>>

\* Rows 2, 3 and 4 full but for column 4, an I falling
ThreeRows ==
    <<"I", Enter \o PlayFlatI("L") \o PlayLowL("J") \o PlayRightJ("L")
           \o PlayHighL("J") \o PlayTopJ("I")>>

\* Rows 1..4 full but for column 4, an I falling.  The play draws two O
\* pieces, which get_random_piece may return and NumKinds leaves out.
FourRows ==
    <<"I", FlatI_J_I("O") \o PlayO(0, "J") \o PlayTopJ("O") \o PlayO(2, "I")>>

\* The states in the middle of the games above
MidGames ==
    {Replay(Created(game[1]), game[2]) :
        game \in {FlatI, LowJ, TwoRows, ThreeRows, FourRows}}

InitMid == \E m \in MidGames : Start(m)

Init == InitCreated \/ InitMid

Spec == Init /\ [][Next]_vars

(***************************************************************************)
(* The moves on their own: Msg::Move(control) handed to update in any      *)
(* order, from the same states, whatever the job and the keys.             *)
(***************************************************************************)
MoveAside ==
    /\ ~panicked /\ locks < MaxLocks
    /\ \E control \in {"Left", "Right", "Rotate"} :
          Commit(update(Self, Move(control), E))

MoveLower ==
    /\ ~panicked /\ locks < MaxLocks
    /\ \E control \in {"Down", "Bottom"}, random_piece \in RespawnChoices(Self) :
          Commit(update(Self, Move(control), random_piece))

NextMoves == MoveAside \/ MoveLower

SpecMoves == Init /\ [][NextMoves]_vars

(***************************************************************************)
(* The scheduler runs the messages that update sent until none is left:    *)
(* a pending StartInterval or Cancel is handled.                           *)
(***************************************************************************)
FairSpec ==
    /\ Init /\ [][Next]_vars
    /\ WF_vars(HandleStartInterval)
    /\ WF_vars(HandleCancel)

(***************************************************************************)
(* The line clear of a lock-in on its own (lines 484-487 of Model::update: *)
(* update_game_state, then remove_rows, when get_completed_rows is not     *)
(* empty), from every stage of GridRows x GridCols cells.                  *)
(***************************************************************************)
GridRows == 4
GridCols == 2

Grids ==
    {Vec2D(GridRows, GridCols, d) : d \in [1..(GridRows * GridCols) -> {E, "I"}]}

InitGrid ==
    \E g \in Grids : Start([Created("I") EXCEPT !.stage = g])

ClearRows ==
    LET rows == get_completed_rows(Self)
    IN  /\ Len(rows) # 0
        /\ Commit(remove_rows(update_game_state(Self, Len(rows)), rows))

SpecClear == InitGrid /\ [][ClearRows]_vars

(***************************************************************************)
(* State::rotate_player_piece on its own, from every piece of the catalog  *)
(* at every column of the stage.                                           *)
(***************************************************************************)
Catalog == {PieceTypes[n] : n \in DOMAIN PieceTypes}

InitPiece ==
    \E t \in Catalog, x \in 0..(StageCols - 1) :
        Start([Created(t) EXCEPT !.player.position.x = x])

Rotate == Commit(rotate_player_piece(Self))

SpecRotate == InitPiece /\ [][Rotate]_vars

(***************************************************************************)
(* The legality predicates on their own (Model::is_player_position_valid,  *)
(* Model::is_position_empty), called with the player piece at any offset   *)
(* up to Reach cells off the stage, in any rotation.  A failed assert! in  *)
(* the call aborts the program.                                            *)
(***************************************************************************)
Reach == 4

Offsets ==
    {[x |-> x, y |-> y] : x \in (-Reach)..(StageCols + Reach - 1),
                          y \in (-Reach)..(StageRows + Reach - 1)}

InitOffset ==
    \E t \in Catalog, position \in Offsets :
        Start([Created(t) EXCEPT !.player.position = position])

CallValid ==
    /\ ~panicked
    /\ Commit(IF is_player_position_valid(Self, player.position.x,
                                          player.position.y, None) = "panic"
              THEN Panic(Self) ELSE Self)

Turn == ~panicked /\ Commit(rotate_player_piece(Self))

NextValid == CallValid \/ Turn

SpecValid == InitOffset /\ [][NextValid]_vars

(***************************************************************************)
(* Model::is_position_empty is read on every stage of PatchRows x          *)
(* PatchCols cells, with every piece of the catalog in every rotation.     *)
(***************************************************************************)
PatchRows == 2
PatchCols == 2

Patches ==
    {Vec2D(PatchRows, PatchCols, d) :
        d \in [1..(PatchRows * PatchCols) -> {E, "I"}]}

InitPatch ==
    \E g \in Patches, t \in Catalog : Start([Created(t) EXCEPT !.stage = g])

SpecEmpty == InitPatch /\ [][Turn]_vars

(***************************************************************************)
(* What the claims speak of                                                *)
(***************************************************************************)
\* The non-Empty cells of a stage
Filled(s) == Cardinality({i \in DOMAIN s.data : s.data[i] # E})

\* A step that locks the player piece: the stage of a game that is not over
\* changes only when a piece is merged into it
LockIn == ~game_status.game_over /\ stage' # stage

\* The rows a lock-in step completed: it adds the four cells of the piece
\* and takes away the cells of the completed rows
Completed == (Filled(stage) + 4 - Filled(stage')) \div stage.n_cols

\* The step hands Msg::Move(control) to update
Moving(control) == Handling("Move") /\ Head(queue).control = control

\* The rows of a stage, top to bottom
Rows(s) == [r \in 1..s.n_rows |-> [c \in 1..s.n_cols |-> get(s, r - 1, c - 1)]]

IsFull(row) == \A c \in DOMAIN row : row[c] # E

NotFull(row) == ~IsFull(row)

\* The full rows deleted, as many Empty rows put on top
Compacted(s) ==
    LET kept == SelectSeq(Rows(s), NotFull)
    IN  [r \in 1..(s.n_rows - Len(kept)) |-> [c \in 1..s.n_cols |-> E]] \o kept

\* A shape is legal at (x, y): in bounds and unobstructed
Legal(shape, x, y) ==
    /\ is_position_empty(Self, x, y, Some(shape))
    /\ is_player_position_valid(Self, x, y, Some(shape)) = "true"

Turned(shape) == [shape EXCEPT !.data = RotatedData(shape)]

Fresh(p) == p.piece_shape = PIECES(p.piece_type)

(***************************************************************************)
(* C1                                                                      *)
(***************************************************************************)
\* C1: in every reachable state, the initial state and the state after a
\* restart included, level = rows_cleared / 10 + 1 (so level 1 while no row
\* has been cleared).
C1_LevelFormula ==
    game_status.level = (game_status.rows_cleared \div 10) + 1

(***************************************************************************)
(* C2                                                                      *)
(***************************************************************************)
ScoreTable(k) ==
    CASE k = 1 -> 40
      [] k = 2 -> 100
      [] k = 3 -> 300
      [] OTHER -> 1200

\* C2: a lock-in that completes k >= 1 rows adds 40, 100, 300 or 1200 (k =
\* 1, 2, 3, >= 4) times the level held before the step to the score, adds k
\* to rows_cleared and leaves game_over as it was.
C2_ScoreOnClear ==
    [][LockIn /\ Completed >= 1 =>
          /\ game_status'.score =
                 game_status.score + ScoreTable(Completed) * game_status.level
          /\ game_status'.rows_cleared = game_status.rows_cleared + Completed
          /\ game_status'.game_over = game_status.game_over]_vars

\* Four rows cleared at once at level 16
C2_FourRowsScored ==
    /\ game_status.rows_cleared = 4
    /\ game_status.score = 1200 * 16
    /\ locks = 1

(***************************************************************************)
(* C3, under SpecClear                                                     *)
(***************************************************************************)
\* C3: remove_rows, given the full rows get_completed_rows returns, yields
\* the stage with those rows deleted, as many Empty rows put on top, and the
\* other rows in their order.
C3_RemoveRowsCompacts ==
    [][Rows(stage') = Compacted(stage) /\ stage'.n_rows = stage.n_rows
                                        /\ stage'.n_cols = stage.n_cols]_vars

\* Two full rows have been removed: the two kept rows, in their order, below
\* two Empty rows
C3_TwoRowsRemoved ==
    /\ game_status.rows_cleared = 2
    /\ Rows(stage) = <<<<E, E>>, <<E, E>>, <<E, "I">>, <<"I", E>>>>

(***************************************************************************)
(* C4                                                                      *)
(***************************************************************************)
\* C4: Move(Down) with the game not over, the piece at y <= 0 and the move
\* to (x, y + 1) not allowed sets game_over and leaves the stage and the
\* type, shape and position of the piece as they were.
C4_ToppedOut ==
    [][(/\ Moving("Down")
        /\ ~game_status.game_over
        /\ player.position.y <= 0
        /\ is_move_allowed(Self, "Down", None) = "false")
       => /\ game_status'.game_over
          /\ stage' = stage
          /\ player'.piece_type = player.piece_type
          /\ player'.piece_shape = player.piece_shape
          /\ player'.position = player.position]_vars

\* The game is over with the I carried one column to the left of the spawn
\* column, standing on the J
C4_GameOver ==
    /\ game_status.game_over
    /\ player.piece_type = "I"
    /\ player.position = [x |-> 3, y |-> 0]
    /\ Filled(stage) = 4

(***************************************************************************)
(* C5                                                                      *)
(***************************************************************************)
\* C5: while game_over is true every step but the handling of StartPause
\* (every Move, every Tick) leaves the stage, the piece and the game status
\* as they were, game_over included.
C5_NoMoveWhenOver ==
    [][game_status.game_over /\ ~KeyEnter
       => UNCHANGED <<stage, player, game_status>>]_vars

\* The game is over, and a Tick has sent a Move(Down) that update handles
\* next
C5_MoveWhenOver == game_status.game_over /\ Moving("Down")

(***************************************************************************)
(* C6                                                                      *)
(***************************************************************************)
\* C6: StartPause handled with no job and game_over true leaves an all-Empty
\* stage, rows_cleared = 0, score = 0, game_over = false and a freshly
\* spawned piece (the catalog shape of its type, at the spawn position), and
\* asks for the interval to be started.
C6_RestartFresh ==
    [][KeyEnter /\ ~job /\ game_status.game_over
       => /\ stage' = initialize_stage(StageRows, StageCols)
          /\ game_status'.rows_cleared = 0
          /\ game_status'.score = 0
          /\ ~game_status'.game_over
          /\ Fresh(player')
          /\ player'.position \in {POSITION_INIT, [x |-> 4, y |-> 0]}
          /\ queue' = <<StartInterval>>]_vars

(***************************************************************************)
(* C7                                                                      *)
(***************************************************************************)
\* C7: Move(Rotate) with the game not over takes the rotated shape at (x, y)
\* when it is legal there; else takes the rotated shape and the position
\* (x, y - 1) when it is legal there; else changes neither.  The stage, the
\* piece type and the game status are unchanged.
C7_TryRotate ==
    [][KeyArrowUp /\ ~game_status.game_over /\ ~panicked'
       => LET rotated == Turned(player.piece_shape)
              x == player.position.x
              y == player.position.y
          IN  /\ IF Legal(rotated, x, y)
                 THEN /\ player'.piece_shape = rotated
                      /\ player'.position = player.position
                 ELSE IF Legal(rotated, x, y - 1)
                 THEN /\ player'.piece_shape = rotated
                      /\ player'.position = [x |-> x, y |-> y - 1]
                 ELSE /\ player'.piece_shape = player.piece_shape
                      /\ player'.position = player.position
              /\ stage' = stage
              /\ player'.piece_type = player.piece_type
              /\ game_status' = game_status]_vars

(***************************************************************************)
(* C8, under SpecRotate                                                    *)
(***************************************************************************)
\* C8: rotate_player_piece applied four times to a shape of the catalog (and
\* to each shape it turns into) gives back the shape, cell for cell, with
\* the same dimensions.
C8_FourRotations ==
    rotate_player_piece(rotate_player_piece(rotate_player_piece(
        rotate_player_piece(Self)))).player = player

\* An L turned three times
C8_TurnedThrice ==
    /\ player.piece_type = "L"
    /\ player.piece_shape = Turned(Turned(Turned(PIECES("L"))))
    /\ player.piece_shape # PIECES("L")

(***************************************************************************)
(* C9                                                                      *)
(***************************************************************************)
\* C9: after a lock-in the type of the new piece is one of the seven types
\* of the catalog and is not the type of the piece just locked.
C9_NewTypeDiffers ==
    [][LockIn => /\ player'.piece_type \in Catalog
                 /\ player'.piece_type # player.piece_type]_vars

\* The first piece of a game is locked and an L has come
C9_NextIsL ==
    /\ locks = 1
    /\ Filled(stage) = 4
    /\ player.piece_type = "L"

(***************************************************************************)
(* C10                                                                     *)
(***************************************************************************)
\* C10: Move(Down) not allowed at y > 0, with a lock-in that completes no
\* row, leaves level, rows_cleared, score and game_over as they were and
\* puts the new piece at (4, 0) with the catalog shape of its type.
C10_LockWithoutClear ==
    [][(/\ Moving("Down")
        /\ ~game_status.game_over
        /\ player.position.y > 0
        /\ is_move_allowed(Self, "Down", None) = "false"
        /\ Completed = 0)
       => /\ game_status' = game_status
          /\ player'.position = [x |-> 4, y |-> 0]
          /\ Fresh(player')]_vars

\* A piece has been locked on the flat I without completing a row
C10_LockedOnFlatI ==
    /\ locks = 1
    /\ Filled(stage) = 8
    /\ game_status.rows_cleared = 0
    /\ player.position = [x |-> 4, y |-> 0]
    /\ queue = <<>>

(***************************************************************************)
(* C11, under SpecValid                                                    *)
(***************************************************************************)
\* The non-Empty cells of a shape at (x, y) that lie left of, right of or
\* below the stage
Outside(shape, x, y) ==
    {c \in (0..(shape.n_rows - 1)) \X (0..(shape.n_cols - 1)) :
        /\ get(shape, c[1], c[2]) # E
        /\ (c[2] + x < 0 \/ c[2] + x >= stage.n_cols
            \/ c[1] + y >= stage.n_rows)}

\* C11: for every shape, rotation and offset, is_player_position_valid
\* returns false when a non-Empty cell maps to a column < 0, a column >=
\* n_cols or a row >= n_rows, and true otherwise; it never fails.
C11_ValidIffInside ==
    /\ ~panicked
    /\ is_player_position_valid(Self, player.position.x, player.position.y,
                                None)
         = Bool3(Outside(player.piece_shape, player.position.x,
                         player.position.y) = {})

(***************************************************************************)
(* C12, under SpecEmpty                                                    *)
(***************************************************************************)
\* The offsets up to Reach cells off a stage
Around(s) ==
    {[x |-> x, y |-> y] : x \in (-Reach)..(s.n_cols + Reach - 1),
                          y \in (-Reach)..(s.n_rows + Reach - 1)}

\* The non-Empty cells of a shape at (x, y) that lie on a non-Empty cell of
\* the stage
Blocked(shape, x, y) ==
    {c \in (0..(shape.n_rows - 1)) \X (0..(shape.n_cols - 1)) :
        /\ get(shape, c[1], c[2]) # E
        /\ InVec(stage, c[1] + y, c[2] + x)
        /\ get(stage, c[1] + y, c[2] + x) # E}

\* C12: for every stage, shape and offset, is_position_empty returns false
\* exactly when a non-Empty cell of the shape maps to a non-Empty cell inside
\* the stage; cells that map outside the stage never block.
C12_EmptyIffUnblocked ==
    \A position \in Around(stage) :
        is_position_empty(Self, position.x, position.y, None)
            = (Blocked(player.piece_shape, position.x, position.y) = {})

\* A turned T on a full stage: blocked at (0, 0), free three columns to the
\* left, where all its cells lie outside the stage
C12_TurnedTOnFull ==
    /\ player.piece_type = "T"
    /\ player.piece_shape = Turned(PIECES("T"))
    /\ Filled(stage) = PatchRows * PatchCols
    /\ ~is_position_empty(Self, 0, 0, None)
    /\ is_position_empty(Self, -3, 0, None)

(***************************************************************************)
(* C13, under FairSpec                                                     *)
(***************************************************************************)
KeyNames == {"Enter", "ArrowRight", "ArrowLeft", "ArrowDown", "ArrowUp"}

\* Some StartInterval of a batch is handed to update while the job started
\* before is still there
StartsOnJob(m, batch) ==
    \E i \in DOMAIN batch :
        /\ batch[i] = StartInterval
        /\ UpdateBatch(m, SubSeq(batch, 1, i - 1), E).job

\* C13: at most one interval job is active at any time: StartInterval is
\* never handled while a job started before is still there, be it the
\* StartInterval that StartPause sent or the one of a key batch.
C13_OneTickProducer ==
    /\ Handling("StartInterval") => ~job
    /\ queue = <<>> /\ ~panicked
           => \A key \in KeyNames : ~StartsOnJob(Self, KeyMessages(key))

\* The game ran (the first piece came down to y = 1), was paused, and Enter
\* has sent the StartInterval that update handles next
C13_Resuming ==
    /\ Handling("StartInterval")
    /\ player.position.y = 1
    /\ Filled(stage) = 0

(***************************************************************************)
(* C14                                                                     *)
(***************************************************************************)
\* A restart: StartPause on a finished game calls initialize_game
Restarting == game_status.game_over /\ ~game_status'.game_over

\* C14: within one game, that is in every step that is not a restart, the
\* level never decreases.
C14_LevelNeverDecreases ==
    [][~Restarting => game_status'.level >= game_status.level]_vars

(***************************************************************************)
(* C15, under SpecMoves                                                    *)
(***************************************************************************)
\* Grid, Active Piece and Game Status
Game(m) == <<m.stage, m.player, m.game_status>>

\* The move down only took the piece one row down
OnlyDown(m, m2) == m2 = [m EXCEPT !.player.position.y = @ + 1]

\* Move(Down) handed to update again and again, up to and including the first
\* one that does anything but take the piece one row down
RECURSIVE DownsToLock(_, _)
DownsToLock(m, random_piece) ==
    CHOOSE end \in
        {IF OnlyDown(m, m2) THEN DownsToLock(m2, random_piece) ELSE m2 :
            m2 \in {update(m, Move("Down"), random_piece)}} : TRUE

\* C15: while the game is not over, Move(Bottom) gives the same Grid, Active
\* Piece and Game Status as Move(Down) repeated up to and including the first
\* one that locks the piece or ends the game, for the same piece spawned.
C15_BottomIsRepeatedDown ==
    ~game_status.game_over /\ ~panicked
        => \A random_piece \in RespawnChoices(Self) :
               Game(update(Self, Move("Bottom"), random_piece))
                   = Game(DownsToLock(Self, random_piece))

\* The piece can come down two rows or more, and dropping it locks it
C15_DropFromAbove ==
    /\ ~game_status.game_over /\ ~panicked
    /\ is_move_allowed(Self, "Down", None) = "true"
    /\ is_move_allowed(MoveDown(Self, E), "Down", None) = "true"
    /\ update(Self, Move("Bottom"), "I").stage # stage

(***************************************************************************)
(* C16, under FairSpec                                                     *)
(***************************************************************************)
\* C16: StartPause toggles the automatic drop: handled while a job runs it
\* leads to no job, handled while there is no job it leads to a job, once the
\* message it sent has been handled; and while the game is not over it leaves
\* Grid, Active Piece and Game Status as they were.
C16_StartPauseToggles ==
    queue = <<>> /\ ~panicked
        => \A m2 \in {Drain(update(Self, StartPause, E), E)} :
               /\ m2.job = ~job
               /\ m2.queue = <<>>
               /\ ~game_status.game_over => Game(m2) = Game(Self)

\* The first piece came down to y = 1 on the interval's ticks and no job is
\* left: the game was started and then paused
C16_Paused ==
    /\ ~job /\ queue = <<>>
    /\ ~game_status.game_over
    /\ player.position.y = 1
    /\ Filled(stage) = 0

(***************************************************************************)
(* C17                                                                     *)
(***************************************************************************)
\* The player's shape fits at (x, y): no non-Empty cell of it left of, right
\* of or below the stage, or on a non-Empty cell of the stage
Fits(x, y) ==
    /\ Outside(player.piece_shape, x, y) = {}
    /\ Blocked(player.piece_shape, x, y) = {}

MovedTo(x, y) == [Self EXCEPT !.player.position = [x |-> x, y |-> y]]

\* C17: while the game is not over, a legal Move(Left), Move(Right) or
\* Move(Down) changes the position by one cell (x - 1, x + 1, y + 1) and
\* nothing else; a Move(Left) or Move(Right) that is not legal changes
\* nothing.
C17_MoveByOne ==
    ~game_status.game_over /\ ~panicked
        => LET x == player.position.x
               y == player.position.y
           IN  /\ update(Self, Move("Left"), E)
                      = IF Fits(x - 1, y) THEN MovedTo(x - 1, y) ELSE Self
               /\ update(Self, Move("Right"), E)
                      = IF Fits(x + 1, y) THEN MovedTo(x + 1, y) ELSE Self
               /\ Fits(x, y + 1)
                      => update(Self, Move("Down"), E) = MovedTo(x, y + 1)

\* The piece was moved left as far as it goes: it can still come down or go
\* right, but not left
C17_LeftmostPlace ==
    /\ ~game_status.game_over /\ ~panicked
    /\ player.position.x < POSITION_INIT.x
    /\ ~Fits(player.position.x - 1, player.position.y)
    /\ Fits(player.position.x + 1, player.position.y)
    /\ Fits(player.position.x, player.position.y + 1)

(***************************************************************************)
(* C18                                                                     *)
(***************************************************************************)
\* The cells <<row, column>> of the stage the non-Empty cells of the player's
\* shape map to at its position
PlayerCells ==
    {<<c[1] + player.position.y, c[2] + player.position.x>> :
        c \in {d \in (0..(player.piece_shape.n_rows - 1))
                         \X (0..(player.piece_shape.n_cols - 1)) :
                  get(player.piece_shape, d[1], d[2]) # E}}

\* C18: in every reachable state, every non-Empty cell of the Active Piece at
\* its position lies in a column of [0, n_cols) and in a row < n_rows; rows
\* above 0 come only with y >= -1, the spawn.
C18_PieceInsideStage ==
    /\ \A c \in PlayerCells : c[2] >= 0 /\ c[2] < stage.n_cols /\ c[1] < stage.n_rows
    /\ player.position.y >= -1

\* A turned piece that touches the right wall and the floor
C18_InTheCorner ==
    /\ ~Fresh(player)
    /\ \E c \in PlayerCells : c[2] = stage.n_cols - 1
    /\ \E c \in PlayerCells : c[1] = stage.n_rows - 1

(***************************************************************************)
(* C19                                                                     *)
(***************************************************************************)
\* C19: no sequence of StartPause, Tick and Move commands from the initial
\* state makes an assert of Vec2D::get, get_piece_type or set fail: not in
\* is_player_position_valid or is_position_empty, not in the merge of a
\* lock-in, not in the removal of rows.
C19_NoFailedAssert == ~panicked

\* The piece rests with its box over the right wall or the floor, and the
\* Move(Down) that merges it is the next message
C19_BoxOverTheEdge ==
    /\ Handling("Move") /\ Head(queue).control = "Down"
    /\ ~game_status.game_over
    /\ player.position.y > 0
    /\ is_move_allowed(Self, "Down", None) = "false"
    /\ \/ player.position.x + player.piece_shape.n_cols > stage.n_cols
       \/ player.position.y + player.piece_shape.n_rows > stage.n_rows

(***************************************************************************)
(* C20, under FairSpec                                                     *)
(***************************************************************************)
\* A step that tops out
ToppingOut == ~game_status.game_over /\ game_status'.game_over

CancelPending == game_status.game_over /\ queue = <<Cancel>> /\ ~panicked

Stopped == queue = <<>> /\ ~job

\* C20: whenever a Move(Down) or Move(Bottom) tops out, a Cancel is pending
\* after the step, and it is eventually handled, after which no message is
\* pending and no job is active.
C20_CancelAfterTopOut ==
    /\ [][ToppingOut => queue' = <<Cancel>>]_vars
    /\ CancelPending ~> Stopped

\* The game has just topped out: the job is still active and the Cancel that
\* the move sent is the message to handle
C20_JobBeforeCancel == CancelPending /\ job

(***************************************************************************)
(* C21                                                                     *)
(***************************************************************************)
\* C21: in every reachable state of a game that is not over, no non-Empty
\* cell of the Active Piece at its position lies on a non-Empty cell of the
\* Grid, the state right after a lock-in spawned a piece at (4, 0) included.
C21_PieceOnEmptyCells ==
    ~game_status.game_over
        => Blocked(player.piece_shape, player.position.x, player.position.y) = {}

(***************************************************************************)
(* C22                                                                     *)
(***************************************************************************)
\* The next Move(Down) or Move(Bottom) locks the piece where it is
Resting ==
    /\ ~game_status.game_over /\ ~panicked
    /\ player.position.y > 0
    /\ is_move_allowed(Self, "Down", None) = "false"

StageCells(s) == (0..(s.n_rows - 1)) \X (0..(s.n_cols - 1))

\* C22: the merge of a lock-in writes the piece's type into exactly the four
\* Grid cells under the non-Empty cells of the shape, each of them Empty before,
\* and leaves every other cell of the Grid as it was, before any row is
\* cleared.
C22_MergeOnEmptyCells ==
    Resting
        => \A cells \in {PlayerCells} :
               \A merged \in {add_player_piece_stage(Self, E).stage} :
                   /\ Cardinality(cells) = 4
                   /\ cells \subseteq StageCells(stage)
                   /\ \A c \in StageCells(stage) :
                          IF c \in cells
                          THEN /\ get(stage, c[1], c[2]) = E
                               /\ get(merged, c[1], c[2]) = player.piece_type
                          ELSE get(merged, c[1], c[2]) = get(stage, c[1], c[2])

\* The piece rests on a filled cell of the Grid, not on the floor
C22_RestingOnStack ==
    /\ Resting
    /\ \A c \in PlayerCells : c[1] < stage.n_rows - 1
    /\ \E c \in PlayerCells : get(stage, c[1] + 1, c[2]) # E

(***************************************************************************)
(* C23                                                                     *)
(***************************************************************************)
\* C23: in every reachable state, row 0 of the Grid is all Empty: a lock-in
\* happens at y >= 1 only and writes no cell of row 0, and the removal of a
\* row puts Empty into row 0.
C23_TopRowEmpty ==
    \A n_col \in 0..(stage.n_cols - 1) : get(stage, 0, n_col) = E

\* A piece was locked at y = 1: row 1 of the Grid has a filled cell
C23_FilledUpToRowOne ==
    /\ C23_TopRowEmpty
    /\ \E n_col \in 0..(stage.n_cols - 1) : get(stage, 1, n_col) # E

(***************************************************************************)
(* C24                                                                     *)
(***************************************************************************)
\* C24: after a message has been handled, no row of the Grid is full: the rows
\* a lock-in completed are removed in the same Move(Down) or Move(Bottom).
C24_NoFullRow == \A r \in DOMAIN Rows(stage) : NotFull(Rows(stage)[r])

\* Two rows or more were cleared at once and cells are left on the Grid
C24_ClearedTwoRows ==
    /\ game_status.rows_cleared >= 2
    /\ game_status.score = ScoreTable(game_status.rows_cleared) * 16
    /\ Filled(stage) > 0

(***************************************************************************)
(* C25                                                                     *)
(***************************************************************************)
\* C25: only StartPause starts the automatic drop: when no job is active and
\* no message is pending, a key other than Enter leaves no job active once
\* its messages are handled.
C25_OnlyStartPauseStarts ==
    [][queue = <<>> /\ ~job /\ ~KeyEnter /\ queue' = <<>> => ~job']_vars

(***************************************************************************)
(* C26                                                                     *)
(***************************************************************************)
\* The moves down the loop of Move(Bottom) makes from m before a move down
\* is not allowed, counted up to fuel; fuel + 1 when the loop has not ended
\* by then
RECURSIVE Descents(_, _)
Descents(m, fuel) ==
    IF fuel = 0 THEN 1
    ELSE IF is_move_allowed(m, "Down", None) = "true"
         THEN 1 + Descents([m EXCEPT !.player.position.y = @ + 1], fuel - 1)
    ELSE 0

\* A step of the ArrowDown key: with no message pending, no other step takes
\* the piece down, changes the Grid or ends the game
HardDrop ==
    /\ queue = <<>> /\ ~panicked
    /\ ~game_status.game_over
    /\ \/ player'.position.y # player.position.y
       \/ stage' # stage
       \/ game_status'.game_over

\* C26: Move(Bottom) ends: while the game is not over its loop makes at most
\* n_rows + 1 moves down, and then it has either locked the piece, a new
\* piece being at (4, 0), or set game_over, never both and never neither.
C26_BottomEnds ==
    [][HardDrop
         => /\ Descents(Self, stage.n_rows + 2) <= stage.n_rows + 1
            /\ ~panicked'
            /\ (locks' = locks + 1 /\ player'.position = [x |-> 4, y |-> 0])
                   # game_status'.game_over]_vars

\* The piece is at the spawn place above an empty stage: the loop of
\* Move(Bottom) makes as many moves down as it ever can
C26_LongestDrop ==
    /\ ~game_status.game_over /\ ~panicked
    /\ queue = <<>>
    /\ player.position.y = -1
    /\ Descents(Self, stage.n_rows + 2) >= stage.n_rows - 2

====
